---- MODULE Spec2Model ----
(***************************************************************************)
(* A model of quadtree.py: the Node hierarchy (construction, subdivide),   *)
(* and QuadTree's build, prune and traverse.                               *)
(*                                                                         *)
(* Objects live in a heap, a sequence of node records; a node's identity   *)
(* is its index, None is 0.  The four child slots, 0..3 in the source, are *)
(* the indices 1..4 of a node's children tuple.                            *)
(*                                                                         *)
(* Coordinates are fixed-point numbers: one unit of the source is Scale    *)
(* grid units, Scale a power of two large enough that every halving        *)
(* h = (x1 - x0) / 2 the program performs on the inputs drawn here is      *)
(* exact (HalvingExact checks it), so \div 2 is the source's float         *)
(* division.  minsize is kept in grid units too.                           *)
(*                                                                         *)
(* The recursive operators follow the source's recursion.  Where one takes *)
(* the result of a recursive call as an argument (the heap after a child   *)
(* was subdivided, what prune(child) returned, the lists after a child was *)
(* traversed) it binds it once, v \in {argument}, and works on v: TLC      *)
(* evaluates an argument where it is used, and inside ENABLED each time.   *)
(***************************************************************************)
EXTENDS Integers, Sequences, FiniteSets, TLC

VARIABLES
    minsize,    \* Node.minsize, the class attribute
    heap,       \* the Node objects: parent, children, depth, rect, type
    root,       \* the caller's rootnode
    feat,       \* the spans_feature override of the root's class
    allnodes,   \* QuadTree.allnodes
    leaves,     \* QuadTree.leaves
    maxdepth,   \* QuadTree.maxdepth
    phase,      \* the caller's position: "none", "new", "subdividing",
                \* "subdivided", "pruned"
    ntrav,      \* traverse(rootnode) calls made on the current root
    nroots,     \* root nodes constructed so far
    stack       \* the frames of a running rootnode.subdivide()

vars == <<minsize, heap, root, feat, allnodes, leaves, maxdepth, phase,
          ntrav, nroots, stack>>

----------------------------------------------------------------------------
(* Bounds of the model. *)

MaxFeat == 5        \* rectangles a sparse feature predicate is true of
MaxLevel == 2       \* depth of the quadrants it is true of
MaxTraverse == 2    \* traverse(rootnode) calls per root
MaxSide == 8        \* largest side of an all-feature square (units)
MaxOrigin == 1      \* largest coordinate of its lower left corner (units)
MaxMin == 4         \* largest minrect handed to QuadTree() on it (units)
MaxRoots == 2       \* roots built one after the other in one process
MaxFeatSmall == 2   \* MaxFeat where traverse is called again or builds run in steps
MaxFeatRebuild == 2 \* quadrants of a root that span a feature, of roots built in a row
MaxIds == 100       \* nodes a stepped subdivide may create

(* Program constants. *)
ROOT == 0
BRANCH == 1
LEAF == 2
None == 0
MinSizeDefault == 1
MaxDepthDefault == 3

RECURSIVE Pow2AtLeast(_, _)
Pow2AtLeast(p, n) == IF p >= n THEN p ELSE Pow2AtLeast(2 * p, n)

Scale == Pow2AtLeast(8, MaxSide)
U(n) == n * Scale

----------------------------------------------------------------------------
(* Node *)

NoChildren == <<None, None, None, None>>

Width(rect) == rect[3] - rect[1]

\* line 29 comparing with < for <=
NodeType_Strict(parent, rect, ms) ==
    IF parent = None THEN ROOT
    ELSE IF Width(rect) < ms THEN LEAF
    ELSE BRANCH

\* lines 29-30 left out: no node is a LEAF
NodeType_NoLeaf(parent, rect, ms) ==
    IF parent = None THEN ROOT ELSE BRANCH

\* lines 27-32: ROOT wins over the size test, which reads the width only
NodeType(parent, rect, ms) ==
    IF parent = None THEN ROOT
    ELSE IF Width(rect) <= ms THEN LEAF
    ELSE BRANCH

\* Node.__init__(parent, rect), in heap h with Node.minsize = ms
NewNode(h, parent, rect, ms) ==
    [parent   |-> parent,
     children |-> NoChildren,
     depth    |-> IF parent = None THEN 0 ELSE h[parent].depth + 1,
     rect     |-> rect,
     type     |-> NodeType(parent, rect, ms)]

\* lines 40-46: the four quadrants, in slot order
Rects(rect) ==
    LET x0 == rect[1]
        z0 == rect[2]
        x1 == rect[3]
        z1 == rect[4]
        h  == (x1 - x0) \div 2
    IN  << <<x0, z0, x0 + h, z0 + h>>,
           <<x0, z0 + h, x0 + h, z1>>,
           <<x0 + h, z0 + h, x1, z1>>,
           <<x0 + h, z0, x1, z0 + h>> >>

\* spans_feature(rect): a subclass's override, a predicate of the rectangle.
\* The default of line 68 is [all |-> FALSE, on |-> {}].
spans_feature(f, rect) == f.all \/ rect \in f.on

getinstance(h, self, rect, ms) == NewNode(h, self, rect, ms)

RECURSIVE subdivide(_, _, _, _), SubdivideLoop(_, _, _, _, _)

\* self.subdivide(): the heap it leaves
subdivide(h, self, f, ms) ==
    IF h[self].type = LEAF THEN h
    ELSE SubdivideLoop(h, self, 1, f, ms)

\* the loop of line 47 stopping one quadrant short
SubdivideLoop_ThreeSlots(h, self, n, f, ms) ==
    CHOOSE result \in
        {IF n > 3 THEN v
         ELSE IF spans_feature(f, Rects(v[self].rect)[n])
              THEN SubdivideLoop(
                       subdivide(
                           [Append(v, getinstance(v, self, Rects(v[self].rect)[n], ms))
                               EXCEPT ![self].children[n] = Len(v) + 1],
                           Len(v) + 1, f, ms),
                       self, n + 1, f, ms)
              ELSE SubdivideLoop(v, self, n + 1, f, ms) : v \in {h}} : TRUE

\* iterations n..4 of the loop of lines 47-51
SubdivideLoop(h, self, n, f, ms) ==
    CHOOSE result \in
        {IF n > 4 THEN v
         ELSE IF spans_feature(f, Rects(v[self].rect)[n])
              THEN SubdivideLoop(
                       subdivide(
                           [Append(v, getinstance(v, self, Rects(v[self].rect)[n], ms))
                               EXCEPT ![self].children[n] = Len(v) + 1],
                           Len(v) + 1, f, ms),
                       self, n + 1, f, ms)
              ELSE SubdivideLoop(v, self, n + 1, f, ms) : v \in {h}} : TRUE

\* contains(x, z)
contains(rect, x, z) ==
    x >= rect[1] /\ x <= rect[3] /\ z >= rect[2] /\ z <= rect[4]

----------------------------------------------------------------------------
(* QuadTree *)

\* node.children.index(item): the first slot holding item
Index(children, item) ==
    CHOOSE n \in 1..4 :
        children[n] = item /\ \A m \in 1..(n - 1) : children[m] # item

\* lines 97-99 left out
RemoveAll_Skip(h, node, removals, k) == h

RECURSIVE RemoveAll(_, _, _, _)
\* lines 97-99, from the k-th removal on
RemoveAll(h, node, removals, k) ==
    IF k > Len(removals) THEN h
    ELSE RemoveAll(
             [h EXCEPT ![node].children[Index(h[node].children, removals[k])] = None],
             node, removals, k + 1)

RECURSIVE prune(_, _), PruneLoop(_, _, _, _, _)

\* prune with line 89 returning 0
prune_LeafCountsZero(h, node) ==
    IF h[node].type = LEAF THEN [heap |-> h, count |-> 0]
    ELSE PruneLoop(h, node, 1, 0, <<>>)

\* prune(node): the heap it leaves and the count it returns
prune(h, node) ==
    IF h[node].type = LEAF THEN [heap |-> h, count |-> 1]
    ELSE PruneLoop(h, node, 1, 0, <<>>)

\* lines 94-96 testing the child's own count, not the running one
PruneFold_PerChild(r, node, i, leafcount, removals, child) ==
    CHOOSE result \in
        {PruneLoop(v.heap, node, i + 1, leafcount + v.count,
                   IF v.count = 0 THEN Append(removals, child) ELSE removals)
           : v \in {r}} : TRUE

\* lines 94-96, r what prune(child) returned
PruneFold(r, node, i, leafcount, removals, child) ==
    CHOOSE result \in
        {PruneLoop(v.heap, node, i + 1, leafcount + v.count,
                   IF leafcount + v.count = 0 THEN Append(removals, child)
                   ELSE removals) : v \in {r}} : TRUE

\* the loop of lines 92-96 from slot i on, then lines 97-100
PruneLoop(h, node, i, leafcount, removals) ==
    IF i > 4
    THEN [heap |-> RemoveAll(h, node, removals, 1), count |-> leafcount]
    ELSE IF h[node].children[i] # None
         THEN PruneFold(prune(h, h[node].children[i]), node, i, leafcount,
                        removals, h[node].children[i])
         ELSE PruneLoop(h, node, i + 1, leafcount, removals)

RECURSIVE traverse(_, _), TraverseLoop(_, _, _)

\* The memory traverse works on: the heap, which it reads, and the class
\* attributes of QuadTree, which it writes.
Memory(h, a, l, d) == [heap |-> h, allnodes |-> a, leaves |-> l, maxdepth |-> d]

IsLeaf(m, node) == m.heap[node].type = LEAF

\* lines 106-108 appending a node only where it is not listed yet
Visit_Once(m, node) ==
    [heap     |-> m.heap,
     allnodes |-> IF \E i \in 1..Len(m.allnodes) : m.allnodes[i] = node
                  THEN m.allnodes ELSE Append(m.allnodes, node),
     leaves   |-> IF IsLeaf(m, node) /\ \A i \in 1..Len(m.leaves) : m.leaves[i] # node
                  THEN Append(m.leaves, node) ELSE m.leaves,
     maxdepth |-> IF IsLeaf(m, node) /\ m.heap[node].depth > m.maxdepth
                  THEN m.heap[node].depth ELSE m.maxdepth]

\* lines 106-110
Visit(m, node) ==
    [heap     |-> m.heap,
     allnodes |-> Append(m.allnodes, node),
     leaves   |-> IF IsLeaf(m, node) THEN Append(m.leaves, node) ELSE m.leaves,
     maxdepth |-> IF IsLeaf(m, node) /\ m.heap[node].depth > m.maxdepth
                  THEN m.heap[node].depth ELSE m.maxdepth]

\* traverse visiting a node after its children
traverse_PostOrder(m, node) == Visit(TraverseLoop(m, node, 1), node)

\* traverse(node): the memory it leaves
traverse(m, node) == TraverseLoop(Visit(m, node), node, 1)

\* the loop of lines 111-113 from slot i on
TraverseLoop(m, node, i) ==
    CHOOSE result \in
        {IF i > 4 THEN v
         ELSE IF v.heap[node].children[i] # None
              THEN TraverseLoop(traverse(v, v.heap[node].children[i]), node, i + 1)
              ELSE TraverseLoop(v, node, i + 1) : v \in {m}} : TRUE

----------------------------------------------------------------------------
(* The feature predicates drawn: true everywhere, or true of at most k     *)
(* rectangles, each a quadrant of the root or of a rectangle it is true of *)
(* (what it answers elsewhere is never asked), down to MaxLevel levels.    *)

QuadsOf(S) == UNION {{Rects(r)[n] : n \in 1..4} : r \in S}

RECURSIVE FeatSets(_, _, _)
FeatSets(frontier, k, lev) ==
    IF k = 0 \/ lev = 0 \/ frontier = {} THEN {{}}
    ELSE UNION {{T \cup S : S \in FeatSets(T, k - Cardinality(T), lev - 1)} :
                T \in {T \in SUBSET QuadsOf(frontier) : Cardinality(T) <= k}}

Everywhere == [all |-> TRUE, on |-> {}]

Features(rect, k) ==
    {Everywhere} \cup {[all |-> FALSE, on |-> S] : S \in FeatSets({rect}, k, MaxLevel)}

Square(x, z, s) == <<U(x), U(z), U(x + s), U(z + s)>>

\* true everywhere, or of at most k quadrants of the root
QuadFeatures(rect, k) ==
    {Everywhere} \cup {[all |-> FALSE, on |-> S] : S \in FeatSets({rect}, k, 1)}

BaseRect == Square(0, 0, 4)

RootRects == {Square(0, 0, 8), BaseRect, <<U(0), U(0), U(8), U(2)>>}

MinSizes == {U(1), U(2), U(4)}

----------------------------------------------------------------------------
(* Actions *)

\* self.traverse(rootnode) on heap h and the class attributes as they are
Traversed(h) == traverse(Memory(h, allnodes, leaves, maxdepth), root)

\* rootnode = Node(None, rect), of a class overriding spans_feature by f
NewRoot(rect, f) ==
    /\ heap' = Append(heap, NewNode(heap, None, rect, minsize))
    /\ root' = Len(heap) + 1
    /\ feat' = f
    /\ phase' = "new"
    /\ ntrav' = 0
    /\ nroots' = nroots + 1
    /\ UNCHANGED <<minsize, allnodes, leaves, maxdepth, stack>>

\* rootnode.subdivide(), called directly
Subdivide ==
    /\ phase = "new"
    /\ heap' = subdivide(heap, root, feat, minsize)
    /\ phase' = "subdivided"
    /\ UNCHANGED <<minsize, root, feat, allnodes, leaves, maxdepth, ntrav,
                   nroots, stack>>

\* prune(rootnode), called directly
Prune ==
    /\ phase = "subdivided"
    /\ heap' = prune(heap, root).heap
    /\ phase' = "pruned"
    /\ UNCHANGED <<minsize, root, feat, allnodes, leaves, maxdepth, ntrav,
                   nroots, stack>>

\* traverse(rootnode), called directly
Traverse ==
    /\ phase = "pruned"
    /\ ntrav < MaxTraverse
    /\ allnodes' = Traversed(heap).allnodes
    /\ leaves' = Traversed(heap).leaves
    /\ maxdepth' = Traversed(heap).maxdepth
    /\ ntrav' = ntrav + 1
    /\ UNCHANGED <<minsize, heap, root, feat, phase, nroots, stack>>

Built(minrect) == prune(subdivide(heap, root, feat, minrect), root).heap

\* QuadTree(rootnode, minrect)
Build(minrect) ==
    /\ phase = "new"
    /\ minsize' = minrect
    /\ heap' = Built(minrect)
    /\ allnodes' = Traversed(Built(minrect)).allnodes
    /\ leaves' = Traversed(Built(minrect)).leaves
    /\ maxdepth' = Traversed(Built(minrect)).maxdepth
    /\ phase' = "pruned"
    /\ ntrav' = 1
    /\ UNCHANGED <<root, feat, nroots, stack>>

InitClasses ==
    /\ minsize = U(MinSizeDefault)
    /\ allnodes = <<>>
    /\ leaves = <<>>
    /\ maxdepth = MaxDepthDefault
    /\ stack = <<>>

\* the state after rootnode = Node(None, rect), f its class's spans_feature
OneRoot(rect, f) ==
    /\ InitClasses
    /\ heap = <<NewNode(<<>>, None, rect, U(MinSizeDefault))>>
    /\ feat = f
    /\ root = 1
    /\ phase = "new"
    /\ ntrav = 0
    /\ nroots = 1

\* one root node constructed over BaseRect, with any of Features
Init == \E f \in Features(BaseRect, MaxFeat) : OneRoot(BaseRect, f)

Next ==
    \/ Subdivide
    \/ Prune
    \/ \E m \in MinSizes : Build(m)

Spec == Init /\ [][Next]_vars

----------------------------------------------------------------------------
(* Roots over squares and a rectangle wider than high, with the sparser    *)
(* feature predicates, and every call a caller can make, traverse again    *)
(* and again included.                                                     *)

InitCalls ==
    \E rect \in RootRects : \E f \in Features(rect, MaxFeatSmall) : OneRoot(rect, f)

NextCalls ==
    \/ Subdivide
    \/ Prune
    \/ Traverse
    \/ \E m \in MinSizes \cup {U(8)} : Build(m)

SpecCalls == InitCalls /\ [][NextCalls]_vars

----------------------------------------------------------------------------
(* Squares of every side up to MaxSide whose every rectangle spans a       *)
(* feature, built with every minrect up to MaxMin.                         *)

InitFull ==
    \E x \in 0..MaxOrigin, z \in 0..MaxOrigin, s \in 1..MaxSide :
        OneRoot(Square(x, z, s), Everywhere)

NextFull == \E m \in 1..MaxMin : Build(U(m))

SpecFull == InitFull /\ [][NextFull]_vars

----------------------------------------------------------------------------
(* A process that builds one tree after the other: the class attributes    *)
(* (Node.minsize, QuadTree.allnodes, leaves, maxdepth) live on.            *)

InitRebuild ==
    /\ InitClasses
    /\ heap = <<>>
    /\ feat = [all |-> FALSE, on |-> {}]
    /\ root = None
    /\ phase = "none"
    /\ ntrav = 0
    /\ nroots = 0

RebuildMinSizes == {U(1), U(2)}

NextRebuild ==
    \/ /\ nroots < MaxRoots
       /\ phase \in {"none", "pruned"}
       /\ \E f \in QuadFeatures(BaseRect, MaxFeatRebuild) : NewRoot(BaseRect, f)
    \/ \E m \in RebuildMinSizes : Build(m)

SpecRebuild == InitRebuild /\ [][NextRebuild]_vars

----------------------------------------------------------------------------
(* rootnode.subdivide() run one loop iteration or one return at a time,    *)
(* inside QuadTree(rootnode, minrect).  A frame is a call of subdivide:    *)
(* its node and the slot n its loop is at.                                 *)

\* line 79, then the call of line 80
BuildBegin(minrect) ==
    /\ phase = "new"
    /\ minsize' = minrect
    /\ stack' = <<[node |-> root, n |-> 1]>>
    /\ phase' = "subdividing"
    /\ UNCHANGED <<heap, root, feat, allnodes, leaves, maxdepth, ntrav, nroots>>

Top == stack[Len(stack)]
Pop == SubSeq(stack, 1, Len(stack) - 1)
Advance == [stack EXCEPT ![Len(stack)].n = Top.n + 1]

\* lines 38-39, or the loop of line 47 running out: the call returns
SubdivideReturn ==
    /\ phase = "subdividing"
    /\ stack # <<>>
    /\ heap[Top.node].type = LEAF \/ Top.n > 4
    /\ stack' = Pop
    /\ UNCHANGED <<minsize, heap, root, feat, allnodes, leaves, maxdepth,
                   phase, ntrav, nroots>>

\* one iteration of the loop of lines 47-51, up to the recursive call
SubdivideStep ==
    /\ phase = "subdividing"
    /\ stack # <<>>
    /\ heap[Top.node].type # LEAF
    /\ Top.n <= 4
    /\ IF spans_feature(feat, Rects(heap[Top.node].rect)[Top.n])
       THEN /\ Len(heap) < MaxIds
            /\ heap' = [Append(heap, getinstance(heap, Top.node,
                                   Rects(heap[Top.node].rect)[Top.n], minsize))
                           EXCEPT ![Top.node].children[Top.n] = Len(heap) + 1]
            /\ stack' = Append(Advance, [node |-> Len(heap) + 1, n |-> 1])
       ELSE /\ heap' = heap
            /\ stack' = Advance
    /\ UNCHANGED <<minsize, root, feat, allnodes, leaves, maxdepth, phase,
                   ntrav, nroots>>

\* lines 81-82, once rootnode.subdivide() has returned
BuildEnd ==
    /\ phase = "subdividing"
    /\ stack = <<>>
    /\ heap' = prune(heap, root).heap
    /\ allnodes' = Traversed(prune(heap, root).heap).allnodes
    /\ leaves' = Traversed(prune(heap, root).heap).leaves
    /\ maxdepth' = Traversed(prune(heap, root).heap).maxdepth
    /\ phase' = "pruned"
    /\ ntrav' = 1
    /\ UNCHANGED <<minsize, root, feat, stack, nroots>>

InitTerm == InitCalls

Running == SubdivideReturn \/ SubdivideStep \/ BuildEnd

NextTerm ==
    \/ \E m \in MinSizes \cup {U(8)} : BuildBegin(m)
    \/ SubdivideReturn
    \/ SubdivideStep
    \/ BuildEnd

\* a started call runs on: the program is one thread that never waits
SpecTerm == InitTerm /\ [][NextTerm]_vars /\ WF_vars(Running)

----------------------------------------------------------------------------
(* Sanity of the model itself. *)

Ids == 1..Len(heap)

\* every halving is exact: no node that subdivide splits has an odd width
HalvingExact == \A n \in Ids : heap[n].type # LEAF => Width(heap[n].rect) % 2 = 0

\* the stepped subdivide leaves the heap the recursive one does
StepsAgree ==
    phase = "pruned" =>
        heap = prune(subdivide(<<NewNode(<<>>, None, heap[1].rect, minsize)>>,
                               1, feat, minsize), 1).heap

----------------------------------------------------------------------------
(* What the claims speak of. *)

RECURSIVE Desc(_, _)
\* the nodes reachable from n through present child slots, n included
Desc(h, n) ==
    {n} \cup UNION {Desc(h, h[n].children[i]) :
                      i \in {j \in 1..4 : h[n].children[j] # None}}

LeafDesc(h, n) == {d \in Desc(h, n) : h[d].type = LEAF}

\* the Leaf nodes under the present children in slots 1..i of n
LeavesUpTo(h, n, i) ==
    Cardinality(UNION {LeafDesc(h, h[n].children[j]) :
                         j \in {k \in 1..i : h[n].children[k] # None}})

Range(s) == {s[i] : i \in 1..Len(s)}

\* a step that runs prune(rootnode): the direct call, or a whole build
PruneStep == phase \in {"new", "subdivided"} /\ phase' = "pruned"

\* the heap prune(rootnode) starts from in such a step
BeforePrune ==
    IF phase = "new" THEN subdivide(heap, root, feat, minsize') ELSE heap

\* nodes some prune took out of the hierarchy of the root
Pruned == Ids \ Desc(heap, root)

----------------------------------------------------------------------------
\* C1: pruning never removes a Leaf.  Every LEAF node reachable from the
\* root when prune(rootnode) starts is reachable when it returns, and after a
\* build every Leaf subdivide created is in QuadTree.leaves.
C1_PruneKeepsLeaves ==
    [][PruneStep =>
          \A before \in {LeafDesc(BeforePrune, root)} :
              /\ before \subseteq LeafDesc(heap', root)
              /\ phase = "new" => before \subseteq Range(leaves')
      ]_vars

\* C1 witness: a build that pruned nodes away and kept Leaf nodes
C1_Witness ==
    /\ phase = "pruned"
    /\ ntrav = 1
    /\ Pruned # {}
    /\ LeafDesc(heap, root) # {}
    /\ LeafDesc(heap, root) \subseteq Range(leaves)

----------------------------------------------------------------------------
Childless(h, n) == h[n].children = NoChildren

\* a finished QuadTree(rootnode, minrect), nothing called since
JustBuilt == phase = "pruned" /\ ntrav = 1

\* the slot (1..4) of its parent that holds n
SlotOf(h, n) == Index(h[h[n].parent].children, n)

\* an earlier slot of n's parent holds a child with a Leaf under it
LeafBefore(h, n) ==
    \E j \in 1..(SlotOf(h, n) - 1) :
        /\ h[h[n].parent].children[j] # None
        /\ LeafDesc(h, h[h[n].parent].children[j]) # {}

----------------------------------------------------------------------------
\* C4: the root over (0,0,8,8), minrect 4, a feature in the quadrant
\* (0,0,4,4) only: one child, a LEAF at depth 1 in slot 0, no other child,
\* leaves holding that one Leaf, and maxdepth 1.
C4_Scenario ==
    (/\ JustBuilt
     /\ heap[root].rect = Square(0, 0, 8)
     /\ minsize = U(4)
     /\ feat = [all |-> FALSE, on |-> {Square(0, 0, 4)}])
    => /\ heap[root].children[1] # None
       /\ \A i \in 2..4 : heap[root].children[i] = None
       /\ heap[heap[root].children[1]].type = LEAF
       /\ heap[heap[root].children[1]].depth = 1
       /\ leaves = <<heap[root].children[1]>>
       /\ maxdepth = 1

----------------------------------------------------------------------------
Side == Width(heap[root].rect)

RECURSIVE Pow(_, _)
Pow(b, k) == IF k = 0 THEN 1 ELSE b * Pow(b, k - 1)

\* C5 as stated: a feature everywhere, a square of side minsize * 2^k,
\* k >= 0: a build leaves 4^k Leaf nodes in leaves.
C5_Original ==
    JustBuilt =>
        \A k \in 0..MaxSide : Side = minsize * Pow(2, k) => Len(leaves) = Pow(4, k)

\* C5 amended: 4^k Leaf nodes for k >= 1; for k = 0 the root, never a
\* LEAF, is subdivided all the same and leaves holds 4 nodes.
C5_LeafCount ==
    JustBuilt =>
        /\ \A k \in 1..MaxSide :
               Side = minsize * Pow(2, k) => Len(leaves) = Pow(4, k)
        /\ Side = minsize => Len(leaves) = 4

\* C5 witness: a square of side 4 * minsize built into 16 leaves
C5_Witness == JustBuilt /\ Side = minsize * 4 /\ Len(leaves) = 16

----------------------------------------------------------------------------
WellFormed(rect) == rect[1] <= rect[3] /\ rect[2] <= rect[4]

\* C6: if the root's rectangle has minX <= maxX and minY <= maxY, so has
\* the rectangle of every node created.
C6_WellFormed ==
    WellFormed(heap[1].rect) => \A n \in Ids : WellFormed(heap[n].rect)

----------------------------------------------------------------------------
RECURSIVE Path(_, _)
\* the slots that lead from the root of n's tree to n
Path(h, n) ==
    IF h[n].parent = None THEN <<>>
    ELSE Append(Path(h, h[n].parent), SlotOf(h, n))

\* p comes before q in pre-order: p leads to an ancestor of q's node, or
\* where they part p takes the lower slot
Before(p, q) ==
    \E k \in 0..Len(p) :
        /\ k <= Len(q)
        /\ \A i \in 1..k : p[i] = q[i]
        /\ \/ k = Len(p) /\ k < Len(q)
           \/ k < Len(p) /\ k < Len(q) /\ p[k + 1] < q[k + 1]

\* s lists the nodes reachable from r, each once, in pre-order
IsPreOrder(h, r, s) ==
    /\ Range(s) = Desc(h, r)
    /\ Len(s) = Cardinality(Desc(h, r))
    /\ \A i \in 1..Len(s) : \A j \in (i + 1)..Len(s) :
           Before(Path(h, s[i]), Path(h, s[j]))

LeafNode(n) == heap[n].type = LEAF

\* what a step appended to a sequence, if it kept what was there
Appended(old, new) == SubSeq(new, Len(old) + 1, Len(new))
Kept(old, new) == Len(old) <= Len(new) /\ SubSeq(new, 1, Len(old)) = old

BuildStep == phase = "new" /\ phase' = "pruned"

\* C7 as stated: after every build, one that follows earlier builds
\* included, allnodes is the pre-order listing of the nodes reachable from
\* that build's root and leaves its subsequence of LEAF nodes.
C7_Original ==
    JustBuilt =>
        /\ IsPreOrder(heap, root, allnodes)
        /\ leaves = SelectSeq(allnodes, LeafNode)

\* C7 amended: a build keeps the entries allnodes and leaves held and
\* appends to allnodes the pre-order listing of the nodes reachable from
\* its root, and to leaves the LEAF nodes of that listing in the same
\* order; so allnodes is that listing after a build that found it empty.
C7_BuildAppends ==
    [][BuildStep =>
          /\ Kept(allnodes, allnodes')
          /\ Kept(leaves, leaves')
          /\ IsPreOrder(heap', root, Appended(allnodes, allnodes'))
          /\ Appended(leaves, leaves') =
                 SelectSeq(Appended(allnodes, allnodes'),
                           LAMBDA n : heap'[n].type = LEAF)
      ]_vars

\* C7 witness: a second build done, of a tree two levels deep, behind the
\* entries of the first
C7_Witness ==
    /\ JustBuilt
    /\ nroots = 2
    /\ Len(allnodes) > Cardinality(Desc(heap, root))
    /\ \E n \in Desc(heap, root) : heap[n].depth = 2
    /\ \E n \in Desc(heap, root) : heap[n].type = BRANCH

----------------------------------------------------------------------------
Count(s, x) == Cardinality({i \in 1..Len(s) : s[i] = x})

TraverseStep == phase = "pruned" /\ ntrav' = ntrav + 1

\* C8: traverse(rootnode) on a pruned hierarchy appends one entry to
\* allnodes for each reachable node and one to leaves for each reachable
\* Leaf, keeps the entries there were, and leaves the hierarchy as it is; two
\* calls leave every reachable node twice in allnodes, every Leaf twice in
\* leaves.
C8_TraverseAppends ==
    [][TraverseStep =>
          /\ Kept(allnodes, allnodes')
          /\ Kept(leaves, leaves')
          /\ Len(allnodes') = Len(allnodes) + Cardinality(Desc(heap, root))
          /\ Len(leaves') = Len(leaves) + Cardinality(LeafDesc(heap, root))
          /\ \A n \in Desc(heap, root) :
                 Count(allnodes', n) = Count(allnodes, n) + 1
          /\ \A n \in LeafDesc(heap, root) :
                 Count(leaves', n) = Count(leaves, n) + 1
          /\ heap' = heap
          /\ ntrav' = 2 =>
                 /\ \A n \in Desc(heap, root) : Count(allnodes', n) = 2
                 /\ \A n \in LeafDesc(heap, root) : Count(leaves', n) = 2
      ]_vars

\* C8 witness: traverse has run twice on a hierarchy with Leaf nodes and
\* others
C8_Witness ==
    /\ phase = "pruned"
    /\ ntrav = 2
    /\ LeafDesc(heap, root) # {}
    /\ Len(leaves) = 2 * Cardinality(LeafDesc(heap, root))
    /\ Len(allnodes) > Len(leaves)

----------------------------------------------------------------------------
\* the halvings that bring width w to ms or less
Halvings(w, ms) ==
    CHOOSE d \in 0..MaxIds :
        /\ w <= ms * Pow(2, d)
        /\ \A e \in 0..(d - 1) : w > ms * Pow(2, e)

DepthBound ==
    IF Halvings(Side, minsize) > 1 THEN Halvings(Side, minsize) ELSE 1

\* C9: a build terminates, and no node it creates is deeper than the
\* halvings that bring the root's width to minsize or less (1 at least); a
\* child is half as wide as its parent.
C9_Terminates ==
    /\ (phase = "subdividing") ~> (phase = "pruned")
    /\ [](phase \in {"subdividing", "pruned"} =>
             \A n \in Ids :
                 /\ heap[n].depth <= DepthBound
                 /\ heap[n].parent # None =>
                        2 * Width(heap[n].rect) = Width(heap[heap[n].parent].rect))

\* C9 witness: a finished build with a node as deep as the bound, 2 or more
C9_Witness ==
    /\ phase = "pruned"
    /\ DepthBound >= 2
    /\ \E n \in Desc(heap, root) : heap[n].depth = DepthBound

----------------------------------------------------------------------------
\* a node was created under p
HasChild(p) == \E c \in Ids : heap[c].parent = p

\* C10 as stated: no node of width <= minsize, the root included, is
\* subdivided: its four slots stay absent.
C10_Original ==
    \A n \in Ids :
        Width(heap[n].rect) <= minsize => Childless(heap, n) /\ ~HasChild(n)

\* C10 amended: no node but the root of width <= minsize is subdivided:
\* its four slots stay absent and no node is created under it.
C10_SmallNotSubdivided ==
    \A n \in Ids :
        heap[n].parent # None /\ Width(heap[n].rect) <= minsize =>
            Childless(heap, n) /\ ~HasChild(n)

\* C10 witness: subdivide has run and left alone a node of width <= minsize
\* one of whose quadrants spans a feature
C10_Witness ==
    /\ phase \in {"subdivided", "pruned"}
    /\ \E n \in Ids :
           /\ heap[n].parent # None
           /\ Width(heap[n].rect) <= minsize
           /\ \E i \in 1..4 : spans_feature(feat, Rects(heap[n].rect)[i])

====
